---- MODULE Spec2Model ----
(***************************************************************************)
(* The persistent-state engine of the point-of-sale program (src/pos0.py): *)
(* the SQLite store (products, sales, customers, staff), the database      *)
(* functions that read and write it, and the ShopifyPOS handlers that call *)
(* them.  Several program instances ("terminals") share one database file. *)
(*                                                                         *)
(* Money is REAL in the source; here prices and discounts are whole        *)
(* currency units and a quotient is kept as an exact fraction [num, den].  *)
(***************************************************************************)
EXTENDS Integers, Sequences, FiniteSets, TLC

\* ------------------------------------------------------------------ bounds
MaxProducts == 2
MaxStock == 1
MaxQty == 1
MaxCart == 2
MaxSales == 2

\* ------------------------------------------------------------ input sets
Terminals == {"t1", "t2"}
ProductIds == 1..MaxProducts
\* (name, price) typed into the product form
ProductInputs == {<<"Pen", 5>>, <<"Notebook", 3>>, <<"", 5>>, <<"Pen", 0 - 1>>}
StockInputs == (0 - 1)..MaxStock
QtyInputs == 0..MaxQty
\* datetime.now().strftime('%H%M%S'): the time of day, which recurs daily
ClockTimes == {"101500"}
\* a datetime: the day of the year 2024 and the second of the day.
\* strftime("%Y-%m-%d %H:%M:%S") writes fixed-width fields, so the strings
\* SQLite compares are ordered as the pairs (day, sec) are
Stamp(day, sec) == [day |-> day, sec |-> sec]
\* datetime.now(): 2024-03-01 10:15:00
Dates == {Stamp(61, 36900)}
\* the category entry of the product form
Categories == {"Stationery"}
\* datetime.now() when a report runs: 2024-03-01 10:15:00
Nows == {Stamp(61, 36900)}
\* the dates of stored sales: midnight of today, 7 days ago to the second,
\* 20 days ago, 51 days ago
StoredDates == {Stamp(61, 0), Stamp(54, 36900), Stamp(41, 32400), Stamp(10, 32400)}
Discounts == {0, 5}
PaymentMethods == {"Cash", "Card"}
PinInputs == {"1234", "0000"}
\* an empty age entry is stored as NULL
NoAge == 0 - 1
\* name, email, points, age entered in the customer form
CustomerInputs ==
    {<<"Ann", "a@x", 5, 30>>, <<"Bea", "a@x", 9, 40>>, <<"Bea", "b@x", 0, NoAge>>,
     <<"", "c@x", 0, NoAge>>}
\* name, pin, role handed to add_staff
StaffInputs == {<<"Bob", "1234", "staff">>, <<"Bob", "0000", "staff">>,
                <<"Eve", "0000", "admin">>}

\* Python None where an integer id is expected
NoId == 0
NoTerm == "free"

VARIABLES
    products,       \* table products: id -> [name, price, stock, barcode]
    product_seq,    \* AUTOINCREMENT counter of products
    sales,          \* table sales: id -> row
    sale_seq,       \* AUTOINCREMENT counter of sales
    customers,      \* table customers: id -> [name, email, points, age]
    staff,          \* table staff: id -> [name, pin, role]
    shared,         \* terminals whose open transaction holds SQLite's SHARED lock
    reserved,       \* the terminal whose transaction holds the RESERVED lock
    current_staff,  \* self.current_staff (its id), per terminal
    screen,         \* the frame shown, per terminal
    cart,           \* self.cart, per terminal
    inv_table,      \* rows of self.inv_table (product ids), per terminal
    sales_table,    \* rows of self.sales_table: sale id -> [product_id, quantity]
    pc,             \* where the terminal's running handler is
    rs,             \* the activation of record_sale, or its result
    dashboard,      \* what the reporting functions returned to the dashboard, per terminal
    last            \* the handler that ran last, at which terminal, and the message box it showed

store == <<products, product_seq, sales, sale_seq, customers, staff>>
locks == <<shared, reserved>>
vars == <<products, product_seq, sales, sale_seq, customers, staff, shared, reserved,
          current_staff, screen, cart, inv_table, sales_table, pc, rs, dashboard, last>>

\* ------------------------------------------------------------- helpers
\* an empty table
EmptyTable == [i \in {} |-> 0]

\* a table without the rows whose id is in ids
DropRows(table, ids) == [i \in (DOMAIN table) \ ids |-> table[i]]

\* a table with one more row
PutRow(table, id, row) == [i \in (DOMAIN table) \cup {id} |-> IF i = id THEN row ELSE table[i]]

NoFrame == [at |-> "none"]

\* what a handler shows when it ends: messagebox.showinfo/showwarning,
\* "exception" when an exception leaves the handler (Tk prints it, no box),
\* "" when it shows nothing
Report(t, op, arg, m) == last' = [t |-> t, op |-> op, arg |-> arg, msg |-> m]

\* A one-statement writer (UPDATE/INSERT/DELETE then commit on its own
\* connection) gets the write lock once no open transaction holds a lock;
\* until then sqlite3 waits (connect's default timeout of 5 s against
\* transactions that hold their locks for the length of one function call).
WriteLockFree(t) == reserved = NoTerm /\ shared \subseteq {t}

\* ---------------------------------------------------------------- Init
\* setup_database() on a new file, then the administrator row of __main__
Init ==
    /\ products = EmptyTable
    /\ product_seq = 0
    /\ sales = EmptyTable
    /\ sale_seq = 0
    /\ customers = EmptyTable
    /\ staff = (1 :> [name |-> "Admin", pin |-> "1234", role |-> "admin"])
    /\ shared = {}
    /\ reserved = NoTerm
    /\ current_staff = [t \in Terminals |-> NoId]
    /\ screen = [t \in Terminals |-> "login"]
    /\ cart = [t \in Terminals |-> <<>>]
    /\ inv_table = [t \in Terminals |-> {}]
    /\ sales_table = [t \in Terminals |-> EmptyTable]
    /\ pc = [t \in Terminals |-> "idle"]
    /\ rs = [t \in Terminals |-> NoFrame]
    /\ dashboard = [t \in Terminals |-> NoFrame]
    /\ last = [t |-> "", op |-> "", arg |-> <<>>, msg |-> ""]

\* ------------------------------------------------- login and navigation
\* SELECT id, name, role FROM staff WHERE pin = ?  (fetchone)
verify_staff_pin(pin) ==
    LET hit == {i \in DOMAIN staff : staff[i].pin = pin}
    IN IF hit = {} THEN NoId ELSE CHOOSE i \in hit : TRUE

\* a login button that opens the home screen whatever the entry holds
VerifyLoginOpen(t) ==
    /\ screen[t] = "login" /\ pc[t] = "idle"
    /\ screen' = [screen EXCEPT ![t] = "home"]
    /\ Report(t, "verify_login", <<>>, "Login Success")
    /\ UNCHANGED <<store, locks, current_staff, cart, inv_table, sales_table, pc, rs, dashboard>>

\* ShopifyPOS.verify_login
VerifyLogin(t) ==
    /\ screen[t] = "login" /\ pc[t] = "idle"
    /\ \E pin \in PinInputs :
        LET id == verify_staff_pin(pin)
        IN IF id # NoId
           THEN /\ current_staff' = [current_staff EXCEPT ![t] = id]
                /\ screen' = [screen EXCEPT ![t] = "home"]
                /\ Report(t, "verify_login", <<>>, "Login Success")
           ELSE /\ Report(t, "verify_login", <<>>, "Login Failed")
                /\ UNCHANGED <<current_staff, screen>>
    /\ UNCHANGED <<store, locks, cart, inv_table, sales_table, pc, rs, dashboard>>

\* rows shown by refresh_inventory with an empty search term
get_inventory == DOMAIN products

\* rows shown by refresh_sales with an empty search term
get_sales_history == [i \in DOMAIN sales |->
                        [product_id |-> sales[i].product_id, quantity |-> sales[i].quantity]]

\* clear_frame destroys the widgets of the frame that is left
ShowHome(t) ==
    /\ screen[t] \in {"inventory", "sales", "customers", "dashboard"} /\ pc[t] = "idle"
    /\ screen' = [screen EXCEPT ![t] = "home"]
    /\ inv_table' = [inv_table EXCEPT ![t] = {}]
    /\ sales_table' = [sales_table EXCEPT ![t] = EmptyTable]
    /\ dashboard' = [dashboard EXCEPT ![t] = NoFrame]
    /\ Report(t, "show_home", <<>>, "")
    /\ UNCHANGED <<store, locks, current_staff, cart, pc, rs>>

ShowInventory(t) ==
    /\ screen[t] = "home" /\ pc[t] = "idle"
    /\ screen' = [screen EXCEPT ![t] = "inventory"]
    /\ inv_table' = [inv_table EXCEPT ![t] = get_inventory]
    /\ Report(t, "show_inventory", <<>>, "")
    /\ UNCHANGED <<store, locks, current_staff, cart, sales_table, pc, rs, dashboard>>

ShowSales(t) ==
    /\ screen[t] = "home" /\ pc[t] = "idle"
    /\ screen' = [screen EXCEPT ![t] = "sales"]
    /\ sales_table' = [sales_table EXCEPT ![t] = get_sales_history]
    /\ Report(t, "show_sales", <<>>, "")
    /\ UNCHANGED <<store, locks, current_staff, cart, inv_table, pc, rs, dashboard>>

\* ------------------------------------------------------ Inventory Store
Barcode(name, price, hms) == <<name, price, hms>>

\* add_product: the INSERT with its UNIQUE(barcode) constraint; the row is
\* committed before generate_barcode runs
add_product_insert(name, price, stock, category, hms) ==
    PutRow(products, product_seq + 1,
           [name |-> name, price |-> price, stock |-> stock, category |-> category,
            barcode |-> Barcode(name, price, hms)])

\* a products table without UNIQUE on barcode
BarcodeNeverTaken(b) == FALSE

BarcodeTaken(b) == \E i \in DOMAIN products : products[i].barcode = b

\* a form that accepts any name
NameInputUnchecked(name) == TRUE

\* if not name: raise ValueError("Product name cannot be empty.")
NameInputValid(name) == name # ""

\* if price < 0 or stock < 0: raise ValueError(...)
PriceStockInputValid(price, stock) == price >= 0 /\ stock >= 0

\* ShopifyPOS.add_product, add_product and generate_barcode; the entries
\* (name, price, stock) are read before they are validated
AddProduct(t) ==
    /\ screen[t] = "inventory" /\ pc[t] = "idle"
    /\ \E inp \in ProductInputs, stock \in StockInputs :
        LET name == inp[1]
            price == inp[2]
        IN IF ~NameInputValid(name)
           THEN /\ Report(t, "add_product", <<name, price, stock>>,
                          "Product name cannot be empty.")
                /\ UNCHANGED <<store, inv_table>>
           ELSE IF ~PriceStockInputValid(price, stock)
           THEN /\ Report(t, "add_product", <<name, price, stock>>,
                          "Price and stock must be non-negative.")
                /\ UNCHANGED <<store, inv_table>>
           ELSE \E hms \in ClockTimes, category \in Categories :
                IF BarcodeTaken(Barcode(name, price, hms))
                THEN \* sqlite3.IntegrityError, re-raised as ValueError
                     /\ Report(t, "add_product", <<name, price, stock>>, "Duplicate barcode")
                     /\ UNCHANGED <<store, inv_table>>
                ELSE /\ product_seq < MaxProducts
                     /\ WriteLockFree(t)
                     /\ products' = add_product_insert(name, price, stock, category, hms)
                     /\ product_seq' = product_seq + 1
                     /\ UNCHANGED <<sales, sale_seq, customers, staff>>
                     /\ \E image \in BOOLEAN :
                        IF image
                        THEN /\ Report(t, "add_product", <<name, price, stock>>, "Added")
                             /\ inv_table' = [inv_table EXCEPT ![t] = DOMAIN products']
                        ELSE \* generate_barcode raised: the handler shows the
                             \* warning and skips refresh_inventory
                             /\ Report(t, "add_product", <<name, price, stock>>,
                                       "Failed to add product")
                             /\ UNCHANGED inv_table
    /\ UNCHANGED <<locks, current_staff, screen, cart, sales_table, pc, rs, dashboard>>

\* delete_product: DELETE FROM sales WHERE product_id = ?, then
\* DELETE FROM products WHERE id = ?, one commit
\* a delete_product whose DELETE FROM sales has no WHERE clause
delete_product_sales_all(product_id) == EmptyTable

\* a delete_product without its DELETE FROM sales
delete_product_sales_kept(product_id) == sales

\* a DELETE FROM sales that stops after the first row of the product
delete_product_sales_first(product_id) ==
    DropRows(sales, {i \in DOMAIN sales :
                        /\ sales[i].product_id = product_id
                        /\ \A j \in DOMAIN sales : sales[j].product_id = product_id => i <= j})

delete_product_sales(product_id) ==
    DropRows(sales, {i \in DOMAIN sales : sales[i].product_id = product_id})

delete_product_products(product_id) == DropRows(products, {product_id})

\* ShopifyPOS.remove_inventory_item
RemoveInventoryItem(t) ==
    /\ screen[t] = "inventory" /\ pc[t] = "idle"
    /\ IF inv_table[t] = {}
       THEN /\ Report(t, "remove_inventory_item", <<>>, "Select an item.")
            /\ UNCHANGED <<store, inv_table>>
       ELSE \E product_id \in inv_table[t] :
            /\ WriteLockFree(t)
            /\ sales' = delete_product_sales(product_id)
            /\ products' = delete_product_products(product_id)
            /\ Report(t, "remove_inventory_item", <<product_id>>, "Removed")
            /\ inv_table' = [inv_table EXCEPT ![t] = DOMAIN products']
            /\ UNCHANGED <<product_seq, sale_seq, customers, staff>>
    /\ UNCHANGED <<locks, current_staff, screen, cart, sales_table, pc, rs, dashboard>>

\* an UPDATE that adds the entered value to the stock
adjust_stock_delta(product_id, new_stock) ==
    [i \in DOMAIN products |->
        IF i = product_id THEN [products[i] EXCEPT !.stock = @ + new_stock] ELSE products[i]]

\* adjust_stock: UPDATE products SET stock = ? WHERE id = ?
adjust_stock(product_id, new_stock) ==
    [i \in DOMAIN products |->
        IF i = product_id THEN [products[i] EXCEPT !.stock = new_stock] ELSE products[i]]

\* a stock dialog that hands any integer to adjust_stock
StockInputUnchecked(new_stock) == TRUE

\* apply_stock_adjust: the check that guards adjust_stock
StockInputValid(new_stock) == new_stock >= 0

\* ShopifyPOS.adjust_stock_dialog and apply_stock_adjust
ApplyStockAdjust(t) ==
    /\ screen[t] = "inventory" /\ pc[t] = "idle"
    /\ IF inv_table[t] = {}
       THEN /\ Report(t, "apply_stock_adjust", <<>>, "Select an item.")
            /\ UNCHANGED <<store, inv_table>>
       ELSE \E product_id \in inv_table[t], new_stock \in StockInputs :
            IF ~StockInputValid(new_stock)
            THEN /\ Report(t, "apply_stock_adjust", <<product_id, new_stock>>, "Stock cannot be negative.")
                 /\ UNCHANGED <<store, inv_table>>
            ELSE /\ WriteLockFree(t)
                 /\ products' = adjust_stock(product_id, new_stock)
                 /\ Report(t, "apply_stock_adjust", <<product_id, new_stock>>, "Stock set")
                 /\ inv_table' = [inv_table EXCEPT ![t] = DOMAIN products']
                 /\ UNCHANGED <<product_seq, sales, sale_seq, customers, staff>>
    /\ UNCHANGED <<locks, current_staff, screen, cart, sales_table, pc, rs, dashboard>>

\* ------------------------------------------------------------ the cart
\* a cart form that accepts any quantity
QtyInputUnchecked(qty) == TRUE

\* if qty <= 0: raise ValueError("Quantity must be positive.")
QtyInputValid(qty) == qty > 0

\* ShopifyPOS.add_to_cart: the row is read by position (result[1]), on a
\* connection of its own
AddToCart(t) ==
    /\ screen[t] = "sales" /\ pc[t] = "idle"
    /\ \E product_id \in ProductIds, qty \in QtyInputs :
        IF ~QtyInputValid(qty)
        THEN /\ Report(t, "add_to_cart", <<>>, "Quantity must be positive.")
             /\ UNCHANGED cart
        ELSE IF product_id \notin DOMAIN products \/ products[product_id].stock < qty
        THEN /\ Report(t, "add_to_cart", <<>>, "Not enough stock or invalid ID.")
             /\ UNCHANGED cart
        ELSE /\ Len(cart[t]) < MaxCart
             /\ cart' = [cart EXCEPT ![t] = Append(@,
                            [product_id |-> product_id, qty |-> qty,
                             price |-> products[product_id].price,
                             name |-> products[product_id].name])]
             /\ Report(t, "add_to_cart", <<>>, "")
    /\ UNCHANGED <<store, locks, current_staff, screen, inv_table, sales_table, pc, rs, dashboard>>

\* del self.cart[index]
RemoveAt(s, k) == [j \in 1..(Len(s) - 1) |-> IF j < k THEN s[j] ELSE s[j + 1]]

\* ShopifyPOS.remove_cart_item
RemoveCartItem(t) ==
    /\ screen[t] = "sales" /\ pc[t] = "idle"
    /\ IF cart[t] = <<>>
       THEN /\ Report(t, "remove_cart_item", <<>>, "Select an item.")
            /\ UNCHANGED cart
       ELSE \E index \in 1..Len(cart[t]) :
            /\ cart' = [cart EXCEPT ![t] = RemoveAt(@, index)]
            /\ Report(t, "remove_cart_item", <<>>, "")
    /\ UNCHANGED <<store, locks, current_staff, screen, inv_table, sales_table, pc, rs, dashboard>>

\* ShopifyPOS.clear_cart
ClearCart(t) ==
    /\ screen[t] = "sales" /\ pc[t] = "idle"
    /\ cart[t] # <<>>
    /\ cart' = [cart EXCEPT ![t] = <<>>]
    /\ Report(t, "clear_cart", <<>>, "")
    /\ UNCHANGED <<store, locks, current_staff, screen, inv_table, sales_table, pc, rs, dashboard>>

\* ------------------------------------------- Sales Transaction Engine
\* record_sale creates its cursor on a connection whose row_factory was
\* never set (the reporting functions set sqlite3.Row, record_sale does
\* not): fetchone() gives a plain tuple
row_factory == "tuple"

\* no statement of the module imports traceback, so the name is unbound
\* where the except clauses evaluate traceback.format_exc()
traceback_bound == FALSE

\* a / b as floor division
FloorDiv(a, b) == [num |-> a \div b, den |-> 1]

\* Python's a / b, kept exact
TrueDiv(a, b) == [num |-> a, den |-> b]

\* SELECT id FROM customers WHERE name = ?  (fetchone)
CustomerIdByName(customer_name) ==
    LET hit == {i \in DOMAIN customers : customers[i].name = customer_name}
    IN IF customer_name = "None" \/ hit = {} THEN NoId
       ELSE CHOOSE i \in hit : \A j \in hit : i <= j

CustomerChoices == {"None"} \cup {customers[i].name : i \in DOMAIN customers}

\* [(pid, qty, price) for pid, qty, price, _ in self.cart]
CartItems(c) ==
    [k \in 1..Len(c) |->
        [product_id |-> c[k].product_id, qty |-> c[k].qty, price |-> c[k].price]]

\* what record_sale hands back to its caller
Returned(kind, total, date, exc) ==
    [at |-> "returned", kind |-> kind, total |-> total, date |-> date, exc |-> exc]

\* ShopifyPOS.finalize_sale up to the call of record_sale, and record_sale
\* up to BEGIN TRANSACTION (a deferred transaction: no lock is taken yet)
FinalizeSale(t) ==
    /\ screen[t] = "sales" /\ pc[t] = "idle"
    /\ IF cart[t] = <<>>
       THEN /\ Report(t, "finalize_sale", <<>>, "Cart is empty!")
            /\ UNCHANGED <<pc, rs>>
       ELSE \E discount \in Discounts, customer_name \in CustomerChoices,
               payment_method \in PaymentMethods, date \in Dates :
            /\ pc' = [pc EXCEPT ![t] = "record_sale"]
            /\ rs' = [rs EXCEPT ![t] =
                        [at |-> "select", i |-> 1, total_sale |-> 0,
                         discount |-> discount, date |-> date,
                         staff_id |-> current_staff[t],
                         payment_method |-> payment_method,
                         customer_id |-> CustomerIdByName(customer_name),
                         upd |-> [p \in ProductIds |-> 0],
                         rows |-> <<>>]]
            /\ Report(t, "finalize_sale", <<>>, "")
    /\ UNCHANGED <<store, locks, current_staff, screen, cart, inv_table, sales_table, dashboard>>

\* SELECT stock, name FROM products WHERE id = ? inside the transaction,
\* which sees its own uncommitted UPDATEs; fetchone() is None for no row
FetchOne(f, product_id) ==
    IF product_id \in DOMAIN products
    THEN [found |-> TRUE, stock |-> products[product_id].stock - f.upd[product_id],
          name |-> products[product_id].name]
    ELSE [found |-> FALSE, stock |-> 0, name |-> ""]

\* result["stock"]: only a sqlite3.Row can be indexed by a column name; a
\* tuple and None raise TypeError
SubscriptRaises(result) == ~result.found \/ row_factory # "Row"

\* rows that carry each line's own value less an even share of the discount
SaleRowsByLine(cart_items, total_sale, discount, date, staff_id, payment_method, customer_id) ==
    [k \in 1..Len(cart_items) |->
        [product_id |-> cart_items[k].product_id,
         quantity |-> cart_items[k].qty,
         total |-> [num |-> cart_items[k].price * cart_items[k].qty * Len(cart_items) - discount,
                    den |-> Len(cart_items)],
         discount |-> TrueDiv(discount, Len(cart_items)),
         date |-> date, staff_id |-> staff_id,
         payment_method |-> payment_method, customer_id |-> customer_id]]

\* the rows of INSERT INTO sales, one per cart line, each with the cart's
\* net total and discount divided by the number of lines
SaleRows(cart_items, total_sale, discount, date, staff_id, payment_method, customer_id) ==
    [k \in 1..Len(cart_items) |->
        [product_id |-> cart_items[k].product_id,
         quantity |-> cart_items[k].qty,
         total |-> TrueDiv(total_sale, Len(cart_items)),
         discount |-> TrueDiv(discount, Len(cart_items)),
         date |-> date, staff_id |-> staff_id,
         payment_method |-> payment_method, customer_id |-> customer_id]]

\* the store after COMMIT: the stock UPDATEs and the inserted rows
CommitProducts(f) ==
    [p \in DOMAIN products |-> [products[p] EXCEPT !.stock = @ - f.upd[p]]]

CommitSales(f) ==
    [i \in (DOMAIN sales) \cup ((sale_seq + 1)..(sale_seq + Len(f.rows))) |->
        IF i \in DOMAIN sales THEN sales[i] ELSE f.rows[i - sale_seq]]

\* leaving the transaction without COMMIT: conn.rollback() drops the
\* uncommitted changes and the locks
ReleaseLocks(t) ==
    /\ shared' = shared \ {t}
    /\ reserved' = IF reserved = t THEN NoTerm ELSE reserved

\* except Exception as e: conn.rollback(); logger.error(f"...{traceback.format_exc()}");
\* return None, None.  The log line is evaluated first.
ExceptClause(t) ==
    /\ ReleaseLocks(t)
    /\ pc' = [pc EXCEPT ![t] = "finalize_sale"]
    /\ rs' = [rs EXCEPT ![t] =
                IF traceback_bound
                THEN Returned("none", 0, "", "")
                ELSE Returned("raise", 0, "", "NameError")]
    /\ UNCHANGED store

\* if stock < quantity: conn.rollback(); return None, None
InsufficientStock(t) ==
    /\ ReleaseLocks(t)
    /\ pc' = [pc EXCEPT ![t] = "finalize_sale"]
    /\ rs' = [rs EXCEPT ![t] = Returned("none", 0, "", "")]
    /\ UNCHANGED store

\* a record_sale without a transaction: rows read by position, every
\* UPDATE committed as it is executed, nothing to roll back
RecordSaleAutocommit(t) ==
    /\ pc[t] = "record_sale"
    /\ LET f == rs[t]
           line == cart[t][f.i]
           net == f.total_sale + line.price * line.qty - f.discount
       IN IF line.product_id \notin DOMAIN products
             \/ products[line.product_id].stock < line.qty
          THEN /\ pc' = [pc EXCEPT ![t] = "finalize_sale"]
               /\ rs' = [rs EXCEPT ![t] = Returned("none", 0, "", "")]
               /\ UNCHANGED store
          ELSE /\ products' = [products EXCEPT ![line.product_id].stock = @ - line.qty]
               /\ IF f.i < Len(cart[t])
                  THEN /\ rs' = [rs EXCEPT ![t].i = @ + 1,
                                          ![t].total_sale = @ + line.price * line.qty]
                       /\ UNCHANGED <<pc, sales, sale_seq>>
                  ELSE /\ sales' = [i \in (DOMAIN sales) \cup
                                        ((sale_seq + 1)..(sale_seq + Len(cart[t]))) |->
                                      IF i \in DOMAIN sales THEN sales[i]
                                      ELSE SaleRows(CartItems(cart[t]), net, f.discount, f.date,
                                                    f.staff_id, f.payment_method,
                                                    f.customer_id)[i - sale_seq]]
                       /\ sale_seq' = sale_seq + Len(cart[t])
                       /\ pc' = [pc EXCEPT ![t] = "finalize_sale"]
                       /\ rs' = [rs EXCEPT ![t] = Returned("value", net, f.date, "")]
               /\ UNCHANGED <<product_seq, customers, staff>>
    /\ Report(t, "record_sale", <<>>, "")
    /\ UNCHANGED <<locks, current_staff, screen, cart, inv_table, sales_table, dashboard>>

\* record_sale, one statement of the transaction at a time
RecordSale(t) ==
    /\ pc[t] = "record_sale"
    /\ LET f == rs[t]
           cart_items == CartItems(cart[t])
       IN IF f.at = "select"
          THEN LET line == cart_items[f.i]
                   result == FetchOne(f, line.product_id)
               IN IF SubscriptRaises(result)
                  THEN ExceptClause(t)
                  ELSE IF result.stock < line.qty
                  THEN InsufficientStock(t)
                  ELSE /\ shared' = shared \cup {t}
                       /\ rs' = [rs EXCEPT ![t].at = "update",
                                           ![t].total_sale = @ + line.price * line.qty]
                       /\ UNCHANGED <<store, reserved, pc>>
          ELSE IF f.at = "update"
          THEN IF reserved \notin {NoTerm, t}
               THEN \* SQLITE_BUSY at once: a reader is not promoted while
                    \* another connection holds the RESERVED lock
                    ExceptClause(t)
               ELSE /\ reserved' = t
                    /\ rs' = [rs EXCEPT ![t].upd[cart_items[f.i].product_id] =
                                            @ + cart_items[f.i].qty,
                                        ![t].i = @ + 1,
                                        ![t].at = IF f.i < Len(cart_items)
                                                  THEN "select" ELSE "insert"]
                    /\ UNCHANGED <<store, shared, pc>>
          ELSE IF f.at = "insert"
          THEN /\ rs' = [rs EXCEPT ![t].total_sale = @ - f.discount,
                                   ![t].rows = SaleRows(cart_items, f.total_sale - f.discount,
                                                        f.discount, f.date, f.staff_id,
                                                        f.payment_method, f.customer_id),
                                   ![t].at = "commit"]
               /\ UNCHANGED <<store, locks, pc>>
          ELSE \* conn.commit() waits for the other readers to finish
               /\ shared \subseteq {t}
               /\ products' = CommitProducts(f)
               /\ sales' = CommitSales(f)
               /\ sale_seq' = sale_seq + Len(f.rows)
               /\ ReleaseLocks(t)
               /\ pc' = [pc EXCEPT ![t] = "finalize_sale"]
               /\ rs' = [rs EXCEPT ![t] = Returned("value", f.total_sale, f.date, "")]
               /\ UNCHANGED <<product_seq, customers, staff>>
    /\ Report(t, "record_sale", <<>>, "")
    /\ UNCHANGED <<current_staff, screen, cart, inv_table, sales_table, dashboard>>

\* Python's truth value of the first element of record_sale's result
Truthy(r) == r.kind = "value" /\ r.total # 0

\* ShopifyPOS.finalize_sale after record_sale: an exception leaves the
\* handler (Tk reports it on stderr, no message box); otherwise `if total:`
FinalizeSaleResult(t) ==
    /\ pc[t] = "finalize_sale"
    /\ pc' = [pc EXCEPT ![t] = "idle"]
    /\ rs' = [rs EXCEPT ![t] = NoFrame]
    /\ IF rs[t].kind = "raise"
       THEN /\ Report(t, "finalize_sale", <<>>, "exception")
            /\ UNCHANGED <<cart, sales_table>>
       ELSE IF Truthy(rs[t])
       THEN /\ Report(t, "finalize_sale", <<>>, "Sale Processed")
            /\ cart' = [cart EXCEPT ![t] = <<>>]
            /\ sales_table' = [sales_table EXCEPT ![t] = get_sales_history]
       ELSE /\ Report(t, "finalize_sale", <<>>, "Sale failed.")
            /\ UNCHANGED <<cart, sales_table>>
    /\ UNCHANGED <<store, locks, current_staff, screen, inv_table, dashboard>>

\* the two statements of process_return, one commit
\* a DELETE that takes every row of the returned row's product
process_return_sales_of_product(sale_id) ==
    DropRows(sales, {i \in DOMAIN sales :
                        sale_id \in DOMAIN sales /\ sales[i].product_id = sales[sale_id].product_id})

process_return_sales(sale_id) == DropRows(sales, {sale_id})

process_return_products(product_id, qty) ==
    [i \in DOMAIN products |->
        IF i = product_id THEN [products[i] EXCEPT !.stock = @ + qty] ELSE products[i]]

\* ShopifyPOS.process_return: sale id, product id and quantity are read
\* from the selected row of self.sales_table
ProcessReturn(t) ==
    /\ screen[t] = "sales" /\ pc[t] = "idle"
    /\ IF DOMAIN sales_table[t] = {}
       THEN /\ Report(t, "process_return", <<>>, "Select a sale.")
            /\ UNCHANGED <<store, sales_table>>
       ELSE \E sale_id \in DOMAIN sales_table[t] :
            LET product_id == sales_table[t][sale_id].product_id
                qty == sales_table[t][sale_id].quantity
            IN /\ WriteLockFree(t)
               /\ sales' = process_return_sales(sale_id)
               /\ products' = process_return_products(product_id, qty)
               /\ Report(t, "process_return", <<sale_id>>, "Return processed.")
               /\ sales_table' = [sales_table EXCEPT ![t] = get_sales_history']
               /\ UNCHANGED <<product_seq, sale_seq, customers, staff>>
    /\ UNCHANGED <<locks, current_staff, screen, cart, inv_table, pc, rs, dashboard>>

\* ------------------------------------------ customer and staff registries
ShowCustomers(t) ==
    /\ screen[t] = "home" /\ pc[t] = "idle"
    /\ screen' = [screen EXCEPT ![t] = "customers"]
    /\ Report(t, "show_customers", <<>>, "")
    /\ UNCHANGED <<store, locks, current_staff, cart, inv_table, sales_table, pc, rs, dashboard>>

\* a customers table without UNIQUE on email
EmailNeverTaken(email) == FALSE

\* email TEXT UNIQUE: the INSERT raises sqlite3.IntegrityError
EmailTaken(email) == \E i \in DOMAIN customers : customers[i].email = email

\* INSERT INTO customers (name, email, points, age); c.lastrowid
add_customer_insert(name, email, points, age) ==
    PutRow(customers, Cardinality(DOMAIN customers) + 1,
           [name |-> name, email |-> email, points |-> points, age |-> age])

\* SELECT id FROM customers WHERE email = ?  (fetchone()[0])
add_customer_select(email) == CHOOSE i \in DOMAIN customers : customers[i].email = email

\* ShopifyPOS.add_customer and add_customer; the id add_customer returns is
\* the last element of the reported arguments (the handler drops it)
AddCustomer(t) ==
    /\ screen[t] = "customers" /\ pc[t] = "idle"
    /\ \E inp \in CustomerInputs :
        LET name == inp[1]
            email == inp[2]
            points == inp[3]
            age == inp[4]
        IN IF name = ""
           THEN /\ Report(t, "add_customer", <<name, email, points, age, NoId>>,
                          "Name cannot be empty.")
                /\ UNCHANGED store
           ELSE IF EmailTaken(email)
           THEN /\ Report(t, "add_customer",
                          <<name, email, points, age, add_customer_select(email)>>, "Added")
                /\ UNCHANGED store
           ELSE /\ WriteLockFree(t)
                /\ customers' = add_customer_insert(name, email, points, age)
                /\ Report(t, "add_customer",
                          <<name, email, points, age, Cardinality(DOMAIN customers) + 1>>,
                          "Added")
                /\ UNCHANGED <<products, product_seq, sales, sale_seq, staff>>
    /\ UNCHANGED <<locks, current_staff, screen, cart, inv_table, sales_table, pc, rs, dashboard>>

\* a staff table without UNIQUE on pin
PinNeverTaken(pin) == FALSE

\* pin TEXT UNIQUE: the INSERT raises sqlite3.IntegrityError
PinTaken(pin) == \E i \in DOMAIN staff : staff[i].pin = pin

\* INSERT INTO staff (name, pin, role)
add_staff_insert(name, pin, role) ==
    PutRow(staff, Cardinality(DOMAIN staff) + 1, [name |-> name, pin |-> pin, role |-> role])

\* add_staff, called in the process of terminal t (no handler calls it).
\* Its except clause logs traceback.format_exc(): with traceback unbound
\* the IntegrityError is replaced by NameError; either way it raises.
AddStaff(t) ==
    /\ \E inp \in StaffInputs :
        LET name == inp[1]
            pin == inp[2]
            role == inp[3]
        IN IF PinTaken(pin)
           THEN /\ Report(t, "add_staff", <<name, pin, role>>, "exception")
                /\ UNCHANGED store
           ELSE /\ WriteLockFree(t)
                /\ staff' = add_staff_insert(name, pin, role)
                /\ Report(t, "add_staff", <<name, pin, role>>, "")
                /\ UNCHANGED <<products, product_seq, sales, sale_seq, customers>>
    /\ UNCHANGED <<locks, current_staff, screen, cart, inv_table, sales_table, pc, rs, dashboard>>

\* ------------------------------------------------------------ reporting
\* Every reporting function opens its own connection and executes one
\* SELECT: it reads the committed tables.
Periods == {"today", "week", "month", "all"}

\* date >= ? on the formatted strings
DateGE(a, b) == a.day > b.day \/ (a.day = b.day /\ a.sec >= b.sec)

\* start_date of get_sales_summary and get_avg_sale_value: midnight of
\* today, now - timedelta(days=7), now - timedelta(days=30)
start_date(period, now) ==
    IF period = "today" THEN Stamp(now.day, 0)
    ELSE IF period = "week" THEN Stamp(now.day - 7, now.sec)
    ELSE Stamp(now.day - 30, now.sec)

\* the rows the WHERE clause of a period selects; any other period has no
\* WHERE clause
SelectSince(period, now) ==
    IF period \in {"today", "week", "month"}
    THEN {i \in DOMAIN sales : DateGE(sales[i].date, start_date(period, now))}
    ELSE DOMAIN sales

\* exact sum of two fractions
AddFrac(a, b) == [num |-> a.num * b.den + b.num * a.den, den |-> a.den * b.den]

\* SUM(total) and SUM(quantity) over the selected rows; SQL gives NULL for
\* no row, and Python's `or 0` turns NULL (and a zero) into 0
RECURSIVE SumOfTotal(_)
SumOfTotal(ids) ==
    IF ids = {} THEN [num |-> 0, den |-> 1]
    ELSE LET i == CHOOSE x \in ids : TRUE
         IN AddFrac(sales[i].total, SumOfTotal(ids \ {i}))

RECURSIVE SumOfQuantity(_)
SumOfQuantity(ids) ==
    IF ids = {} THEN 0
    ELSE LET i == CHOOSE x \in ids : TRUE
         IN sales[i].quantity + SumOfQuantity(ids \ {i})

\* a summary that ignores the period
get_sales_summary_all_time(period, now) ==
    <<SumOfTotal(DOMAIN sales), SumOfQuantity(DOMAIN sales)>>

get_sales_summary(period, now) ==
    <<SumOfTotal(SelectSince(period, now)), SumOfQuantity(SelectSince(period, now))>>

\* an average without `or 0`: the quotient by the number of rows, whatever it is
get_avg_sale_value_unguarded(period, now) ==
    LET ids == SelectSince(period, now)
    IN [num |-> SumOfTotal(ids).num, den |-> SumOfTotal(ids).den * Cardinality(ids)]

\* AVG(total): the sum over the number of selected rows, NULL (then 0) for none
get_avg_sale_value(period, now) ==
    LET ids == SelectSince(period, now)
    IN IF ids = {} THEN [num |-> 0, den |-> 1]
       ELSE [num |-> SumOfTotal(ids).num, den |-> SumOfTotal(ids).den * Cardinality(ids)]

\* a < b for fractions with positive denominators
FracLess(a, b) == a.num * b.den < b.num * a.den

\* the groups of a GROUP BY in the order of ORDER BY key DESC; SQL leaves the
\* order of groups with equal keys open, one of them is taken
RECURSIVE OrderDesc(_, _)
OrderDesc(groups, key) ==
    IF groups = {} THEN <<>>
    ELSE LET g == CHOOSE x \in groups : \A y \in groups : ~FracLess(key[x], key[y])
         IN <<g>> \o OrderDesc(groups \ {g}, key)

\* integer groups in the order of ORDER BY group (ascending)
RECURSIVE OrderAsc(_)
OrderAsc(groups) ==
    IF groups = {} THEN <<>>
    ELSE LET g == CHOOSE x \in groups : \A y \in groups : x <= y
         IN <<g>> \o OrderAsc(groups \ {g})

\* the first n elements of a sequence (LIMIT n)
Limit(s, n) == SubSeq(s, 1, IF Len(s) < n THEN Len(s) ELSE n)

\* get_sales_trend: start_date is formatted "%Y-%m-%d", a prefix of the
\* strings of its day, so every row of that day or later is selected;
\* GROUP BY date(date) ORDER BY sale_date
get_sales_trend(days, now) ==
    LET ids == {i \in DOMAIN sales : sales[i].date.day >= now.day - days}
        order == OrderAsc({sales[i].date.day : i \in ids})
    IN [k \in 1..Len(order) |->
          [sale_date |-> order[k],
           daily_total |-> SumOfTotal({i \in ids : sales[i].date.day = order[k]})]]

\* trend_days of refresh_dashboard
trend_days(period) ==
    IF period = "month" THEN 30 ELSE IF period = "week" THEN 7
    ELSE IF period = "today" THEN 1 ELSE 365

\* get_top_products: sales JOIN products, GROUP BY p.id,
\* ORDER BY total_sold DESC LIMIT ?
get_top_products(limit) ==
    LET joined == {i \in DOMAIN sales : sales[i].product_id \in DOMAIN products}
        groups == {sales[i].product_id : i \in joined}
        of == [p \in groups |-> {i \in joined : sales[i].product_id = p}]
        order == OrderDesc(groups, [p \in groups |-> [num |-> SumOfQuantity(of[p]), den |-> 1]])
    IN Limit([k \in 1..Len(order) |->
                [name |-> products[order[k]].name,
                 total_sold |-> SumOfQuantity(of[order[k]]),
                 total_revenue |-> SumOfTotal(of[order[k]])]], limit)

\* get_category_sales: sales JOIN products, GROUP BY p.category,
\* ORDER BY total_sales DESC
get_category_sales ==
    LET joined == {i \in DOMAIN sales : sales[i].product_id \in DOMAIN products}
        groups == {products[sales[i].product_id].category : i \in joined}
        of == [g \in groups |-> {i \in joined : products[sales[i].product_id].category = g}]
        order == OrderDesc(groups, [g \in groups |-> SumOfTotal(of[g])])
    IN [k \in 1..Len(order) |->
          [category |-> order[k], total_sales |-> SumOfTotal(of[order[k]])]]

\* get_staff_performance: sales JOIN staff, GROUP BY st.id,
\* ORDER BY total_sales DESC
get_staff_performance ==
    LET joined == {i \in DOMAIN sales : sales[i].staff_id \in DOMAIN staff}
        groups == {sales[i].staff_id : i \in joined}
        of == [g \in groups |-> {i \in joined : sales[i].staff_id = g}]
        order == OrderDesc(groups, [g \in groups |-> SumOfTotal(of[g])])
    IN [k \in 1..Len(order) |->
          [name |-> staff[order[k]].name, total_sales |-> SumOfTotal(of[order[k]]),
           items_sold |-> SumOfQuantity(of[order[k]])]]

\* Python's None where a row is expected
NoRow == [name |-> "None"]

\* get_top_customer: sales JOIN customers, GROUP BY c.id,
\* ORDER BY total_spent DESC LIMIT 1; fetchone() is None for no row
get_top_customer ==
    LET joined == {i \in DOMAIN sales : sales[i].customer_id \in DOMAIN customers}
        groups == {sales[i].customer_id : i \in joined}
        of == [g \in groups |-> {i \in joined : sales[i].customer_id = g}]
        order == OrderDesc(groups, [g \in groups |-> SumOfTotal(of[g])])
    IN IF order = <<>> THEN NoRow
       ELSE [name |-> customers[order[1]].name, total_spent |-> SumOfTotal(of[order[1]])]

\* strftime('%m', date): the month of a day of the leap year 2024
MonthOf(day) ==
    LET first == <<1, 32, 61, 92, 122, 153, 183, 214, 245, 275, 306, 336>>
    IN CHOOSE m \in 1..12 : first[m] <= day /\ (m = 12 \/ day < first[m + 1])

\* the CASE of get_sales_by_season
SeasonOf(month) ==
    IF month \in {3, 4, 5} THEN "Spring"
    ELSE IF month \in {6, 7, 8} THEN "Summer"
    ELSE IF month \in {9, 10, 11} THEN "Fall"
    ELSE "Winter"

\* get_sales_by_season: GROUP BY season ORDER BY total_sales DESC
get_sales_by_season ==
    LET groups == {SeasonOf(MonthOf(sales[i].date.day)) : i \in DOMAIN sales}
        of == [g \in groups |-> {i \in DOMAIN sales : SeasonOf(MonthOf(sales[i].date.day)) = g}]
        order == OrderDesc(groups, [g \in groups |-> SumOfTotal(of[g])])
    IN [k \in 1..Len(order) |->
          [season |-> order[k], total_sales |-> SumOfTotal(of[order[k]])]]

\* get_sales_by_month: GROUP BY month ORDER BY month
get_sales_by_month ==
    LET order == OrderAsc({MonthOf(sales[i].date.day) : i \in DOMAIN sales})
    IN [k \in 1..Len(order) |->
          [month |-> order[k],
           total_sales |-> SumOfTotal({i \in DOMAIN sales :
                                          MonthOf(sales[i].date.day) = order[k]})]]

\* the CASE of get_sales_by_age_group
AgeGroupOf(age) ==
    IF age >= 0 /\ age <= 18 THEN "0-18"
    ELSE IF age >= 19 /\ age <= 30 THEN "19-30"
    ELSE IF age >= 31 /\ age <= 45 THEN "31-45"
    ELSE IF age >= 46 /\ age <= 60 THEN "46-60"
    ELSE "61+"

\* get_sales_by_age_group: sales JOIN customers WHERE c.age IS NOT NULL,
\* GROUP BY age_group ORDER BY total_sales DESC
get_sales_by_age_group ==
    LET joined == {i \in DOMAIN sales : /\ sales[i].customer_id \in DOMAIN customers
                                        /\ customers[sales[i].customer_id].age # NoAge}
        groups == {AgeGroupOf(customers[sales[i].customer_id].age) : i \in joined}
        of == [g \in groups |->
                 {i \in joined : AgeGroupOf(customers[sales[i].customer_id].age) = g}]
        order == OrderDesc(groups, [g \in groups |-> SumOfTotal(of[g])])
    IN [k \in 1..Len(order) |->
          [age_group |-> order[k], total_sales |-> SumOfTotal(of[order[k]])]]

\* the rows refresh_dashboard reads: the four summaries and averages, the
\* top products and the trend of the chosen period
DashboardValues(period, now) ==
    [at |-> "dashboard", period |-> period,
     summary |-> [p \in Periods |-> get_sales_summary(p, now)],
     avg |-> [p \in Periods |-> get_avg_sale_value(p, now)],
     top_products |-> get_top_products(5),
     trend |-> get_sales_trend(trend_days(period), now)]

\* a refresh that consumes the rows it has summed
refresh_dashboard_sales_consumed == EmptyTable

\* the sales table after refresh_dashboard: it executes no statement but
\* the SELECTs of the reporting functions
refresh_dashboard_sales == sales

\* the period menu's values, lower-cased; period_var starts as "all"
MenuPeriods == {"today", "week", "month", "all time"}

\* ShopifyPOS.show_dashboard: period_var starts as "all"; ends in
\* refresh_dashboard
ShowDashboard(t) ==
    /\ screen[t] = "home" /\ pc[t] = "idle"
    /\ screen' = [screen EXCEPT ![t] = "dashboard"]
    /\ \E now \in Nows :
        dashboard' = [dashboard EXCEPT ![t] = DashboardValues("all", now)]
    /\ sales' = refresh_dashboard_sales
    /\ Report(t, "show_dashboard", <<>>, "")
    /\ UNCHANGED <<products, product_seq, sale_seq, customers, staff, locks, current_staff,
                   cart, inv_table, sales_table, pc, rs>>

\* ShopifyPOS.refresh_dashboard, from the period menu, Search or Refresh
RefreshDashboard(t) ==
    /\ screen[t] = "dashboard" /\ pc[t] = "idle"
    /\ \E period \in MenuPeriods, now \in Nows :
        dashboard' = [dashboard EXCEPT ![t] = DashboardValues(period, now)]
    /\ sales' = refresh_dashboard_sales
    /\ Report(t, "refresh_dashboard", <<>>, "")
    /\ UNCHANGED <<products, product_seq, sale_seq, customers, staff, locks, current_staff,
                   screen, cart, inv_table, sales_table, pc, rs>>

\* the reporting functions no handler calls, applied as functions to the
\* store as it is; what they return is kept with the dashboard's values
Reports(t) ==
    /\ screen[t] = "dashboard" /\ pc[t] = "idle"
    /\ dashboard' = [dashboard EXCEPT ![t] =
                        [at |-> "reports",
                         category_sales |-> get_category_sales,
                         staff_performance |-> get_staff_performance,
                         top_customer |-> get_top_customer,
                         by_season |-> get_sales_by_season,
                         by_month |-> get_sales_by_month,
                         by_age_group |-> get_sales_by_age_group]]
    /\ Report(t, "reports", <<>>, "")
    /\ UNCHANGED <<store, locks, current_staff, screen, cart, inv_table, sales_table, pc, rs>>

\* ------------------------------------------------------- specification
Next ==
    \E t \in Terminals :
        \/ VerifyLogin(t)
        \/ ShowHome(t)
        \/ ShowInventory(t)
        \/ ShowSales(t)
        \/ AddProduct(t)
        \/ RemoveInventoryItem(t)
        \/ ApplyStockAdjust(t)
        \/ AddToCart(t)
        \/ RemoveCartItem(t)
        \/ ClearCart(t)
        \/ FinalizeSale(t)
        \/ RecordSale(t)
        \/ FinalizeSaleResult(t)
        \/ ProcessReturn(t)

Spec == Init /\ [][Next]_vars

\* --------------------------------------- the program on an existing store
\* shopify_pos.db outlives the process: setup_database creates its tables
\* IF NOT EXISTS and __main__ inserts the administrator OR IGNORE, so the
\* program starts on whatever the file holds.  Here: two products (ids 1
\* and 2) and up to MaxSales rows of sales of them.
StoredProductIds == {1, 2}

StoredSaleRows ==
    [product_id : StoredProductIds, quantity : 1..(MaxQty + 1),
     total : {TrueDiv(5, 1)}, discount : {TrueDiv(0, 1)},
     date : Dates, staff_id : {1}, payment_method : {"Cash"}, customer_id : {NoId}]

InitStore ==
    /\ \E s1 \in 0..MaxStock, s2 \in 0..MaxStock :
        products = (1 :> [name |-> "Pen", price |-> 5, stock |-> s1,
                          category |-> "Stationery",
                          barcode |-> Barcode("Pen", 5, "101500")])
                   @@ (2 :> [name |-> "Notebook", price |-> 3, stock |-> s2,
                             category |-> "Paper",
                             barcode |-> Barcode("Notebook", 3, "101500")])
    /\ product_seq = 2
    /\ \E n \in 0..MaxSales : sales \in [1..n -> StoredSaleRows] /\ sale_seq = n
    /\ customers = EmptyTable
    /\ staff = (1 :> [name |-> "Admin", pin |-> "1234", role |-> "admin"])
    /\ shared = {}
    /\ reserved = NoTerm
    /\ current_staff = [t \in Terminals |-> NoId]
    /\ screen = [t \in Terminals |-> "login"]
    /\ cart = [t \in Terminals |-> <<>>]
    /\ inv_table = [t \in Terminals |-> {}]
    /\ sales_table = [t \in Terminals |-> EmptyTable]
    /\ pc = [t \in Terminals |-> "idle"]
    /\ rs = [t \in Terminals |-> NoFrame]
    /\ dashboard = [t \in Terminals |-> NoFrame]
    /\ last = [t |-> "", op |-> "", arg |-> <<>>, msg |-> ""]

\* the handlers that write stock and sale rows
NextStore ==
    \E t \in Terminals :
        \/ VerifyLogin(t)
        \/ ShowHome(t)
        \/ ShowInventory(t)
        \/ ShowSales(t)
        \/ RemoveInventoryItem(t)
        \/ ApplyStockAdjust(t)
        \/ ProcessReturn(t)

SpecStore == InitStore /\ [][NextStore]_vars

\* ----------------------------------- the dashboard on an existing store
\* rows of earlier days and of today: one unit for 5, or two units for 7/2
\* (half of a two-line cart of 7); the Pen rows sold to customer 1, the
\* Notebook rows to no customer
ReportSaleRows ==
    {[product_id |-> p, quantity |-> q,
      total |-> IF q = 1 THEN TrueDiv(5, 1) ELSE TrueDiv(7, 2),
      discount |-> TrueDiv(0, 1), date |-> d, staff_id |-> 1,
      payment_method |-> "Cash", customer_id |-> IF p = 1 THEN 1 ELSE NoId] :
        p \in StoredProductIds, q \in 1..(MaxQty + 1), d \in StoredDates}

InitReport ==
    /\ products = (1 :> [name |-> "Pen", price |-> 5, stock |-> MaxStock,
                          category |-> "Stationery",
                          barcode |-> Barcode("Pen", 5, "101500")])
                   @@ (2 :> [name |-> "Notebook", price |-> 3, stock |-> MaxStock,
                             category |-> "Paper",
                             barcode |-> Barcode("Notebook", 3, "101500")])
    /\ product_seq = 2
    /\ \E n \in 0..MaxSales : sales \in [1..n -> ReportSaleRows] /\ sale_seq = n
    /\ customers = (1 :> [name |-> "Ann", email |-> "a@x", points |-> 5, age |-> 30])
    /\ staff = (1 :> [name |-> "Admin", pin |-> "1234", role |-> "admin"])
    /\ shared = {}
    /\ reserved = NoTerm
    /\ current_staff = [t \in Terminals |-> NoId]
    /\ screen = [t \in Terminals |-> "login"]
    /\ cart = [t \in Terminals |-> <<>>]
    /\ inv_table = [t \in Terminals |-> {}]
    /\ sales_table = [t \in Terminals |-> EmptyTable]
    /\ pc = [t \in Terminals |-> "idle"]
    /\ rs = [t \in Terminals |-> NoFrame]
    /\ dashboard = [t \in Terminals |-> NoFrame]
    /\ last = [t |-> "", op |-> "", arg |-> <<>>, msg |-> ""]

\* the dashboard beside the handlers that remove sale rows
NextReport ==
    \E t \in Terminals :
        \/ VerifyLogin(t)
        \/ ShowHome(t)
        \/ ShowDashboard(t)
        \/ RefreshDashboard(t)
        \/ Reports(t)
        \/ ShowInventory(t)
        \/ ShowSales(t)
        \/ RemoveInventoryItem(t)
        \/ ProcessReturn(t)

SpecReport == InitReport /\ [][NextReport]_vars

\* the dashboard beside the checkout, on a store of at most one sale row
InitDashboard == InitReport /\ sale_seq <= 1

NextDashboard ==
    \E t \in Terminals :
        \/ VerifyLogin(t)
        \/ ShowHome(t)
        \/ ShowDashboard(t)
        \/ RefreshDashboard(t)
        \/ Reports(t)
        \/ ShowSales(t)
        \/ AddToCart(t)
        \/ FinalizeSale(t)
        \/ RecordSale(t)
        \/ FinalizeSaleResult(t)

SpecDashboard == InitDashboard /\ [][NextDashboard]_vars

\* ------------------------------------ the registries on a fresh database
NextRegistry ==
    \E t \in Terminals :
        \/ VerifyLogin(t)
        \/ ShowHome(t)
        \/ ShowInventory(t)
        \/ ShowCustomers(t)
        \/ AddProduct(t)
        \/ AddCustomer(t)
        \/ AddStaff(t)

SpecRegistry == Init /\ [][NextRegistry]_vars

\* ------------------------------- the allocation of record_sale as a function
\* cart_items handed to record_sale: triples (product_id, quantity, price)
AllocLines == [product_id : ProductIds, qty : 1..(MaxQty + 1), price : {3, 5}]

AllocCarts == UNION {[1..n -> AllocLines] : n \in 1..MaxCart}

AllocDiscounts == {0, 1, 5}

\* total_sale of record_sale when every line passed: the sum over the lines
\* of price * quantity, less the discount
NetTotal(cart_items, discount) ==
    LET RECURSIVE Sum(_)
        Sum(k) == IF k = 0 THEN 0
                  ELSE cart_items[k].price * cart_items[k].qty + Sum(k - 1)
    IN Sum(Len(cart_items)) - discount

InitAlloc ==
    /\ products = EmptyTable
    /\ product_seq = 0
    /\ sales = EmptyTable
    /\ sale_seq = 0
    /\ customers = EmptyTable
    /\ staff = (1 :> [name |-> "Admin", pin |-> "1234", role |-> "admin"])
    /\ shared = {}
    /\ reserved = NoTerm
    /\ current_staff = [t \in Terminals |-> NoId]
    /\ screen = [t \in Terminals |-> "login"]
    /\ cart = [t \in Terminals |-> <<>>]
    /\ inv_table = [t \in Terminals |-> {}]
    /\ sales_table = [t \in Terminals |-> EmptyTable]
    /\ pc = [t \in Terminals |-> "idle"]
    /\ dashboard = [t \in Terminals |-> NoFrame]
    /\ last = [t |-> "", op |-> "", arg |-> <<>>, msg |-> ""]
    /\ \E c \in AllocCarts, d \in AllocDiscounts :
        rs = [t \in Terminals |->
                IF t = "t1" THEN [at |-> "allocate", cart_items |-> c, discount |-> d]
                ELSE NoFrame]

\* the INSERT loop of record_sale applied to the drawn cart and discount
Allocate ==
    /\ rs["t1"].at = "allocate"
    /\ rs' = [rs EXCEPT !["t1"] =
                [at |-> "allocated", cart_items |-> rs["t1"].cart_items,
                 discount |-> rs["t1"].discount,
                 rows |-> SaleRows(rs["t1"].cart_items,
                                   NetTotal(rs["t1"].cart_items, rs["t1"].discount),
                                   rs["t1"].discount, Stamp(61, 36900), 1, "Cash", NoId)]]
    /\ UNCHANGED <<store, locks, current_staff, screen, cart, inv_table, sales_table, pc, dashboard,
                   last>>

SpecAlloc == InitAlloc /\ [][Allocate]_vars

\* =================================================================== claims
\* the units a cart asks of one product, over all its lines
RECURSIVE Demand(_, _)
Demand(c, p) ==
    IF c = <<>> THEN 0
    ELSE (IF Head(c).product_id = p THEN Head(c).qty ELSE 0) + Demand(Tail(c), p)

\* line k of the cart names a stored product and asks for more than its stock
ShortLine(t, k) ==
    /\ cart[t][k].product_id \in DOMAIN products
    /\ cart[t][k].qty > products[cart[t][k].product_id].stock

Short(t) == \E k \in 1..Len(cart[t]) : ShortLine(t, k)

\* every line names a stored product whose stock covers the whole cart
Sufficient(t) ==
    \A k \in 1..Len(cart[t]) :
        /\ cart[t][k].product_id \in DOMAIN products
        /\ Demand(cart[t], cart[t][k].product_id) <= products[cart[t][k].product_id].stock

\* the step in which terminal t's record_sale hands control back to finalize_sale
RecordSaleEnds(t) == pc[t] = "record_sale" /\ pc'[t] = "finalize_sale"

\* C1: after any sequence of product creation, stock adjustment, checkout,
\* return and product deletion, every stored product has stock >= 0.
C1_StockNonNegative == \A p \in DOMAIN products : products[p].stock >= 0

\* a checkout of a cart naming a product whose stock was set to 0 has ended
C1_Witness ==
    /\ last.op = "finalize_sale" /\ last.msg = "exception"
    /\ \E k \in 1..Len(cart[last.t]) :
        /\ cart[last.t][k].product_id \in DOMAIN products
        /\ products[cart[last.t][k].product_id].stock = 0

\* C2: checkout atomicity. No step of a record_sale whose cart has a line
\* asking for more than its product's stock changes any product or inserts
\* any Sale row: when it ends, stocks and sale log are as they were.
C2_ShortCartChangesNothing ==
    [][\A t \in Terminals :
          (pc[t] = "record_sale" /\ rs'[t] # rs[t] /\ Short(t))
              => (products' = products /\ sales' = sales)]_vars

\* record_sale has ended on a two-line cart whose first line was covered
\* and whose second line, for another product, was not
C2_Witness ==
    \E t \in Terminals :
        /\ pc[t] = "finalize_sale"
        /\ Len(cart[t]) = 2
        /\ cart[t][1].product_id # cart[t][2].product_id
        /\ cart[t][1].product_id \in DOMAIN products
        /\ cart[t][1].qty <= products[cart[t][1].product_id].stock
        /\ ShortLine(t, 2)

\* the units of product p in the sale log
RECURSIVE SumQuantity(_)
SumQuantity(ids) ==
    IF ids = {} THEN 0
    ELSE LET i == CHOOSE x \in ids : TRUE
         IN sales[i].quantity + SumQuantity(ids \ {i})

RowsOf(p) == {i \in DOMAIN sales : sales[i].product_id = p}

\* sum over the lines of price * quantity
RECURSIVE CartTotal(_)
CartTotal(c) == IF c = <<>> THEN 0 ELSE Head(c).price * Head(c).qty + CartTotal(Tail(c))

\* C3: two concurrent checkouts, each asking for one unit of a product whose
\* stock is 1: exactly one commits, the other fails for insufficient stock;
\* the stock ends at 0 with exactly one Sale row of the product.
C3_ExactlyOneCommits ==
    \A p \in DOMAIN products :
        ( /\ \A t \in Terminals :
                /\ pc[t] = "finalize_sale"
                /\ Len(cart[t]) = 1
                /\ cart[t][1].product_id = p
                /\ cart[t][1].qty = 1
          /\ products[p].stock + SumQuantity(RowsOf(p)) = 1 )
        => /\ Cardinality({t \in Terminals : rs[t].kind = "value"}) = 1
           /\ Cardinality({t \in Terminals : rs[t].kind = "none"}) = Cardinality(Terminals) - 1
           /\ products[p].stock = 0
           /\ Cardinality(RowsOf(p)) = 1

\* C4: a record_sale whose cart is covered by the stock ends committed: it
\* returns (netTotal, date), each product's stock is lowered by the units
\* the cart asks of it, and one Sale row per line is inserted with the
\* line's product_id and quantity.
C4_CoveredCartCommits ==
    [][\A t \in Terminals :
          (RecordSaleEnds(t) /\ Sufficient(t)) =>
              /\ rs'[t].kind = "value"
              /\ rs'[t].total = CartTotal(cart[t]) - rs[t].discount
              /\ products' = [p \in DOMAIN products |->
                                [products[p] EXCEPT !.stock = @ - Demand(cart[t], p)]]
              /\ DOMAIN sales' = (DOMAIN sales) \cup ((sale_seq + 1)..(sale_seq + Len(cart[t])))
              /\ \A i \in DOMAIN sales : sales'[i] = sales[i]
              /\ \A k \in 1..Len(cart[t]) :
                    /\ sales'[sale_seq + k].product_id = cart[t][k].product_id
                    /\ sales'[sale_seq + k].quantity = cart[t][k].qty]_vars

\* C7: a checkout aborted for insufficient stock hands its caller an
\* InsufficientStock outcome naming the product, the requested and the
\* available quantity.  (record_sale has three outcomes: a (total, date)
\* pair, the pair (None, None), and an exception; none carries these.)
C7_InsufficientStockIdentified ==
    [][\A t \in Terminals :
          (RecordSaleEnds(t) /\ Short(t) /\ ~(\E k \in 1..Len(cart[t]) :
                                                cart[t][k].product_id \notin DOMAIN products))
              => rs'[t].kind = "insufficient_stock"]_vars

\* C8: a checkout that fails after BEGIN (here: a line naming a product id
\* that is not stored) changes no stock, inserts no row, and hands its
\* caller the sentinel (None, None).
C8_FailureGivesSentinel ==
    [][\A t \in Terminals :
          (RecordSaleEnds(t) /\ \E k \in 1..Len(cart[t]) :
                                    cart[t][k].product_id \notin DOMAIN products)
              => /\ products' = products
                 /\ sales' = sales
                 /\ rs'[t].kind = "none"]_vars

\* C9: every checkout either fully succeeds or fully reports failure: when
\* finalize_sale ends, it has shown "Sale Processed" for a committed cart
\* or "Sale failed." for a cart that changed nothing.
C9_CommitOrReportedFailure ==
    [][\A t \in Terminals :
          (pc[t] = "finalize_sale" /\ pc'[t] = "idle") =>
              \/ (rs[t].kind = "value" /\ last'.msg = "Sale Processed")
              \/ (rs[t].kind # "value" /\ last'.msg = "Sale failed.")]_vars

\* exact sums of the total and of the discount fields of a sequence of rows
RECURSIVE SumTotal(_)
SumTotal(rows) ==
    IF rows = <<>> THEN [num |-> 0, den |-> 1]
    ELSE LET h == Head(rows).total
             r == SumTotal(Tail(rows))
         IN [num |-> h.num * r.den + r.num * h.den, den |-> h.den * r.den]

RECURSIVE SumDiscount(_)
SumDiscount(rows) ==
    IF rows = <<>> THEN [num |-> 0, den |-> 1]
    ELSE LET h == Head(rows).discount
             r == SumDiscount(Tail(rows))
         IN [num |-> h.num * r.den + r.num * h.den, den |-> h.den * r.den]

\* C5: reconciliation. The total fields of the N rows inserted for a cart
\* sum to (sum over the lines of price * quantity) - D, and their discount
\* fields sum to the cart discount D.
C5_RowsReconcile ==
    rs["t1"].at = "allocated" =>
        LET f == rs["t1"]
        IN /\ SumTotal(f.rows).num
                 = (CartTotal(f.cart_items) - f.discount) * SumTotal(f.rows).den
           /\ SumDiscount(f.rows).num = f.discount * SumDiscount(f.rows).den

\* the rows of a two-line cart whose net total is odd, with a discount
C5_Witness ==
    /\ rs["t1"].at = "allocated"
    /\ Len(rs["t1"].rows) = 2
    /\ rs["t1"].discount = 1
    /\ (CartTotal(rs["t1"].cart_items) - rs["t1"].discount) % 2 = 1

\* C6: allocation rule. Every row inserted for a cart of N lines has
\* total = netTotal / N and discount = D / N, so all rows of the cart carry
\* the same total and the same discount whatever the line's own value.
C6_EvenAllocation ==
    rs["t1"].at = "allocated" =>
        LET f == rs["t1"]
            N == Len(f.cart_items)
        IN /\ Len(f.rows) = N
           /\ \A k \in 1..N :
                /\ f.rows[k].total.num * N
                      = (CartTotal(f.cart_items) - f.discount) * f.rows[k].total.den
                /\ f.rows[k].discount.num * N = f.discount * f.rows[k].discount.den
                /\ \A j \in 1..N :
                      /\ f.rows[j].total.num * f.rows[k].total.den
                            = f.rows[k].total.num * f.rows[j].total.den
                      /\ f.rows[j].discount.num * f.rows[k].discount.den
                            = f.rows[k].discount.num * f.rows[j].discount.den

\* the rows of a two-line cart whose lines differ in value, with a discount
C6_Witness ==
    /\ rs["t1"].at = "allocated"
    /\ Len(rs["t1"].rows) = 2
    /\ rs["t1"].discount = 5
    /\ rs["t1"].cart_items[1].price * rs["t1"].cart_items[1].qty
         # rs["t1"].cart_items[2].price * rs["t1"].cart_items[2].qty

\* C10: a return of a stored Sale row s deletes exactly that row and adds
\* s.quantity to the stock of s.product_id; every other Sale row and every
\* other product stays as it was.
C10_ReturnFrame ==
    [][(/\ last'.op = "process_return"
        /\ last'.msg = "Return processed."
        /\ last'.arg[1] \in DOMAIN sales)
          => LET s == last'.arg[1]
             IN /\ DOMAIN sales' = (DOMAIN sales) \ {s}
                /\ \A i \in DOMAIN sales' : sales'[i] = sales[i]
                /\ DOMAIN products' = DOMAIN products
                /\ \A p \in DOMAIN products :
                      products'[p] =
                        IF p = sales[s].product_id
                        THEN [products[p] EXCEPT !.stock = @ + sales[s].quantity]
                        ELSE products[p]]_vars

\* the one terminal in use has returned a row of two units; the other row
\* of the log, for the same product, is still stored
C10_Witness ==
    /\ last.op = "process_return" /\ last.msg = "Return processed."
    /\ \A t \in Terminals : t # last.t => screen[t] = "login"
    /\ sale_seq = 2
    /\ Cardinality(DOMAIN sales) = 1
    /\ last.arg[1] \notin DOMAIN sales
    /\ DOMAIN products = ProductIds
    /\ \E p \in DOMAIN products : products[p].stock = MaxStock + 2

\* C11: deleting product p removes p and every Sale row whose product_id is
\* p in one step; every other product and every Sale row of another product
\* stays as it was.
C11_DeleteCascades ==
    [][(last'.op = "remove_inventory_item" /\ last'.msg = "Removed")
          => LET p == last'.arg[1]
             IN /\ DOMAIN products' = (DOMAIN products) \ {p}
                /\ \A q \in DOMAIN products' : products'[q] = products[q]
                /\ DOMAIN sales' = {i \in DOMAIN sales : sales[i].product_id # p}
                /\ \A i \in DOMAIN sales' : sales'[i] = sales[i]]_vars

\* a product with a Sale row was removed by the one terminal in use, which
\* never opened the sales screen; the Sale row of the other product is kept
C11_Witness ==
    /\ last.op = "remove_inventory_item" /\ last.msg = "Removed"
    /\ \A t \in Terminals : t # last.t => screen[t] = "login"
    /\ DOMAIN products = ProductIds \ {last.arg[1]}
    /\ sale_seq = 2
    /\ Cardinality(DOMAIN sales) = 1
    /\ \A i \in DOMAIN sales : sales[i].product_id # last.arg[1]
    /\ \A p \in DOMAIN products : products[p].stock = 0

\* C12: setting the stock of a stored product p to n is an absolute set: for
\* n >= 0 the stock of p becomes exactly n, whatever it was, and no other
\* product changes; for n < 0 the operation fails with a validation error
\* and the stock of p is unchanged.
C12_SetStockAbsolute ==
    [][(/\ last'.op = "apply_stock_adjust"
        /\ Len(last'.arg) = 2
        /\ last'.arg[1] \in DOMAIN products)
          => LET p == last'.arg[1]
                 n == last'.arg[2]
             IN IF n >= 0
                THEN /\ last'.msg = "Stock set"
                     /\ DOMAIN products' = DOMAIN products
                     /\ products'[p].stock = n
                     /\ \A q \in DOMAIN products :
                          /\ q # p => products'[q] = products[q]
                          /\ products'[q].name = products[q].name
                          /\ products'[q].price = products[q].price
                          /\ products'[q].barcode = products[q].barcode
                     /\ sales' = sales
                ELSE /\ last'.msg = "Stock cannot be negative."
                     /\ products' = products
                     /\ sales' = sales]_vars

\* the stock of one product was set to 1 while the other product holds the
\* stock a return of two units gave it
C12_Witness ==
    /\ last.op = "apply_stock_adjust" /\ last.msg = "Stock set"
    /\ last.arg[2] = 1
    /\ last.arg[1] \in DOMAIN products
    /\ products[last.arg[1]].stock = 1
    /\ \E q \in DOMAIN products : q # last.arg[1] /\ products[q].stock = MaxStock + 2

\* C13: setting the stock of a product id that is not stored fails
\* (NotFound) and leaves the store unchanged; it does not report success.
C13_UnknownProductRejected ==
    [][(/\ last'.op = "apply_stock_adjust"
        /\ Len(last'.arg) = 2
        /\ last'.arg[1] \notin DOMAIN products)
          => /\ last'.msg # "Stock set"
             /\ products' = products
             /\ sales' = sales]_vars

\* C14: creating a product with an empty name, a negative price or a
\* negative stock fails with a validation error and inserts no product row.
C14_InvalidProductRejected ==
    [][(/\ last'.op = "add_product"
        /\ (last'.arg[1] = "" \/ last'.arg[2] < 0 \/ last'.arg[3] < 0))
          => /\ last'.msg \in {"Product name cannot be empty.",
                               "Price and stock must be non-negative."}
             /\ products' = products
             /\ product_seq' = product_seq]_vars

\* a product with a negative stock was refused while another is stored
C14_Witness ==
    /\ last.op = "add_product"
    /\ last.msg = "Price and stock must be non-negative."
    /\ last.arg[1] # "" /\ last.arg[2] >= 0 /\ last.arg[3] < 0
    /\ Cardinality(DOMAIN products) = 1

\* C15: creating a second product that generates the barcode of a stored
\* one (same name, same price, same HHMMSS) reports a duplicate-barcode
\* failure and leaves the products exactly as they were.
C15_DuplicateBarcodeRejected ==
    [][(/\ last'.op = "add_product"
        /\ last'.arg[1] # "" /\ last'.arg[2] >= 0 /\ last'.arg[3] >= 0
        /\ \E i \in DOMAIN products, hms \in ClockTimes :
              products[i].barcode = Barcode(last'.arg[1], last'.arg[2], hms))
          => /\ last'.msg = "Duplicate barcode"
             /\ products' = products
             /\ product_seq' = product_seq]_vars

\* the stored product is intact after a second creation with its name and
\* price, but another stock, was refused
C15_Witness ==
    /\ last.op = "add_product" /\ last.msg = "Duplicate barcode"
    /\ Cardinality(DOMAIN products) = 1
    /\ \A i \in DOMAIN products :
          /\ products[i].name = last.arg[1]
          /\ products[i].price = last.arg[2]
          /\ products[i].stock # last.arg[3]

\* C16: a creation that passed validation and the barcode constraint stores
\* its product row and is treated as valid, whether or not the barcode
\* image could be produced.
C16_ImageFailureKeepsCreation ==
    [][(/\ last'.op = "add_product"
        /\ last'.msg \notin {"Product name cannot be empty.",
                             "Price and stock must be non-negative.",
                             "Duplicate barcode"})
          => /\ product_seq' = product_seq + 1
             /\ DOMAIN products' = (DOMAIN products) \cup {product_seq'}
             /\ products'[product_seq'].name = last'.arg[1]
             /\ last'.msg = "Added"]_vars

\* no two rows of a table share the column declared UNIQUE
UniqueKeys ==
    /\ \A i, j \in DOMAIN products : i # j => products[i].barcode # products[j].barcode
    /\ \A i, j \in DOMAIN customers : i # j => customers[i].email # customers[j].email
    /\ \A i, j \in DOMAIN staff : i # j => staff[i].pin # staff[j].pin

\* C17: in every reachable state no two products share a barcode, no two
\* customers share an email and no two staff rows share a pin; adding a
\* staff member with a pin already in use fails and leaves staff unchanged.
C17_KeysUnique ==
    /\ []UniqueKeys
    /\ [][(/\ last'.op = "add_staff"
           /\ \E i \in DOMAIN staff : staff[i].pin = last'.arg[2])
             => (last'.msg = "exception" /\ staff' = staff)]_vars

\* with two products, two customers and two staff rows stored, an add_staff
\* with the pin of the second staff row has failed
C17_Witness ==
    /\ last.op = "add_staff" /\ last.msg = "exception"
    /\ Cardinality(DOMAIN products) = 2
    /\ Cardinality(DOMAIN customers) = 2
    /\ Cardinality(DOMAIN staff) = 2
    /\ staff[2].pin = last.arg[2]
    /\ staff[2].name # last.arg[1]

\* C18: getOrCreate is idempotent by email. A call with an email that is
\* not stored inserts one row and returns its id; a call with a stored email
\* returns the id of the row holding it, inserts nothing and leaves that
\* row's name, points and age as they were: two calls with one email return
\* the same id.
C18_GetOrCreateIdempotent ==
    [][(last'.op = "add_customer" /\ last'.arg[1] # "")
          => LET email == last'.arg[2]
                 id == last'.arg[5]
                 held == {i \in DOMAIN customers : customers[i].email = email}
             IN IF held # {}
                THEN /\ id \in held
                     /\ customers' = customers
                ELSE /\ id \notin DOMAIN customers
                     /\ DOMAIN customers' = (DOMAIN customers) \cup {id}
                     /\ customers'[id].email = email
                     /\ customers'[id].name = last'.arg[1]
                     /\ \A i \in DOMAIN customers : customers'[i] = customers[i]]_vars

\* a second call with the email of customer 1 and another name, points and
\* age has returned id 1; customer 1 is the only row
C18_Witness ==
    /\ last.op = "add_customer" /\ last.msg = "Added"
    /\ last.arg[5] = 1
    /\ DOMAIN customers = {1}
    /\ customers[1].email = last.arg[2]
    /\ customers[1].name # last.arg[1]
    /\ customers[1].points # last.arg[3]
    /\ customers[1].age # last.arg[4]

\* C19: a Sale row is immutable while it exists: no step changes any of its
\* fields, and it disappears only through a return of that row or through
\* the deletion of its product.
C19_SaleRowImmutable ==
    [][\A i \in DOMAIN sales :
          IF i \in DOMAIN sales'
          THEN sales'[i] = sales[i]
          ELSE \/ (last'.op = "process_return" /\ last'.arg = <<i>>)
               \/ (/\ last'.op = "remove_inventory_item"
                   /\ last'.arg = <<sales[i].product_id>>)]_vars

\* one of two stored rows was returned at terminal t2 while terminal t1
\* still lists both; the other row is stored as before
C19_Witness ==
    /\ last.op = "process_return" /\ last.msg = "Return processed." /\ last.t = "t2"
    /\ sale_seq = 2
    /\ Cardinality(DOMAIN sales) = 1
    /\ DOMAIN sales_table["t1"] = {1, 2}
    /\ \A i \in DOMAIN sales :
          /\ sales[i].quantity = sales_table["t1"][i].quantity
          /\ sales[i].product_id = sales_table["t1"][i].product_id

\* C20: after any sequence of cart building and checkout operations every
\* Sale row in the store has quantity > 0, as has every cart line a
\* checkout would take its rows from.
C20_QuantityPositive ==
    /\ \A i \in DOMAIN sales : sales[i].quantity > 0
    /\ \A t \in Terminals : \A k \in 1..Len(cart[t]) : cart[t][k].qty > 0

\* a checkout of a full cart has ended
C20_Witness ==
    /\ last.op = "finalize_sale" /\ last.msg = "exception"
    /\ Len(cart[last.t]) = MaxCart
    /\ \A k \in 1..Len(cart[last.t]) : cart[last.t][k].product_id \in DOMAIN products

\* C21: the reporting operations are read-only. A step of show_dashboard,
\* refresh_dashboard or of the reporting functions, in any state and also
\* while another terminal's checkout is under way, leaves every product,
\* sale, customer and staff row as it was.
C21_ReportsReadOnly ==
    [][last'.op \in {"show_dashboard", "refresh_dashboard", "reports"} =>
          UNCHANGED <<products, sales, customers, staff>>]_vars

\* a dashboard was refreshed on a store with sale rows while the other
\* terminal's record_sale was running
C21_Witness ==
    /\ last.op = "refresh_dashboard"
    /\ \E u \in Terminals \ {last.t} : pc[u] = "record_sale"
    /\ dashboard[last.t].at = "dashboard"
    /\ dashboard[last.t].summary["all"][2] > 0
    /\ sales # EmptyTable
\* C22: on an empty sale log every aggregation returns zero or an empty
\* result: get_sales_summary gives (0, 0) and get_avg_sale_value gives 0 for
\* each period, get_top_customer gives None, and the sequence-valued reports
\* give empty sequences.
C22_EmptyLogGivesZero ==
    [][sales = EmptyTable =>
        /\ last'.op \in {"show_dashboard", "refresh_dashboard"} =>
              /\ \A p \in Periods :
                    /\ dashboard'[last'.t].summary[p] = <<[num |-> 0, den |-> 1], 0>>
                    /\ dashboard'[last'.t].avg[p] = [num |-> 0, den |-> 1]
              /\ dashboard'[last'.t].top_products = <<>>
              /\ dashboard'[last'.t].trend = <<>>
        /\ last'.op = "reports" =>
              /\ dashboard'[last'.t].top_customer = NoRow
              /\ dashboard'[last'.t].category_sales = <<>>
              /\ dashboard'[last'.t].staff_performance = <<>>
              /\ dashboard'[last'.t].by_season = <<>>
              /\ dashboard'[last'.t].by_month = <<>>
              /\ dashboard'[last'.t].by_age_group = <<>>]_vars

\* the reporting functions ran on a log that returns or a product deletion
\* had emptied
C22_Witness ==
    /\ last.op = "reports"
    /\ sales = EmptyTable /\ sale_seq > 0
    /\ dashboard[last.t].top_customer = NoRow
\* seconds from date to now
Elapsed(date, now) == 86400 * (now.day - date.day) + (now.sec - date.sec)

\* the date falls in the window: since midnight, in the last 7 days, in the
\* last 30 days, ever
InWindow(date, period, now) ==
    IF period = "today" THEN date.day >= now.day
    ELSE IF period = "week" THEN Elapsed(date, now) <= 7 * 86400
    ELSE IF period = "month" THEN Elapsed(date, now) <= 30 * 86400
    ELSE TRUE

\* the sums of total and of quantity over the stored rows of ids 1..n whose
\* date falls in the window
RECURSIVE WindowSums(_, _, _)
WindowSums(n, period, now) ==
    IF n = 0 THEN [total |-> [num |-> 0, den |-> 1], quantity |-> 0]
    ELSE LET rest == WindowSums(n - 1, period, now)
         IN IF n \in DOMAIN sales /\ InWindow(sales[n].date, period, now)
            THEN [total |-> AddFrac(rest.total, sales[n].total),
                  quantity |-> rest.quantity + sales[n].quantity]
            ELSE rest

\* C23: get_sales_summary(period) returns exactly (sum of total, sum of
\* quantity) over the Sale rows in the store when it runs whose date falls
\* in the window; rows removed by a return or by a cascading product deletion no
\* longer contribute.
C23_SummaryIsWindowSum ==
    [][last'.op \in {"show_dashboard", "refresh_dashboard"} =>
          \A p \in Periods : \E now \in Nows :
              LET got == dashboard'[last'.t].summary[p]
                  want == WindowSums(sale_seq, p, now)
              IN /\ got[1].num * want.total.den = want.total.num * got[1].den
                 /\ got[2] = want.quantity]_vars

\* a summary read after a row was removed: the row that is left lies in the
\* week but not in today
C23_Witness ==
    /\ last.op = "refresh_dashboard"
    /\ Cardinality(DOMAIN sales) = 1 /\ sale_seq = 2
    /\ dashboard[last.t].summary["today"][2] = 0
    /\ dashboard[last.t].summary["week"][2] > 0
    /\ dashboard[last.t].summary["week"] = dashboard[last.t].summary["all"]
\* C24: a stock adjustment or product deletion concurrent with a checkout
\* that contains the product is serialized with it. Every step of a running
\* record_sale leaves products and sales alone, except the one step that
\* commits, and that step takes the whole cart from stock values that cover
\* it in the very state it commits on; the writers of the other terminal
\* are single steps; and no stock is negative.
C24_Serialized ==
    /\ [](\A p \in DOMAIN products : products[p].stock >= 0)
    /\ [][\A u \in Terminals :
            (pc[u] = "record_sale" /\ last'.t = u /\ last'.op = "record_sale") =>
                \/ UNCHANGED <<products, sales>>
                \/ /\ RecordSaleEnds(u)
                   /\ DOMAIN products' = DOMAIN products
                   /\ \A p \in DOMAIN products :
                        /\ products[p].stock >= Demand(cart[u], p)
                        /\ products'[p].stock = products[p].stock - Demand(cart[u], p)]_vars

\* the stock of a product was set while the other terminal's record_sale,
\* with that product in its cart, was running
C24_Witness ==
    /\ last.op = "apply_stock_adjust" /\ last.msg = "Stock set"
    /\ \E u \in Terminals \ {last.t} :
        /\ pc[u] = "record_sale"
        /\ \E k \in 1..Len(cart[u]) : cart[u][k].product_id = last.arg[1]
\* C25: a cart with two lines for the same product, the first of which the
\* stock covers. record_sale ends either at the availability check of the
\* second line, which sees the stock less the first line's quantity and
\* rejects the cart with no change when both quantities together exceed the
\* stock, or by a commit that takes the sum of both quantities from the stock.
C25_SecondLineSeesFirst ==
    [][\A u \in Terminals :
          (/\ RecordSaleEnds(u)
           /\ Len(cart[u]) = 2
           /\ cart[u][1].product_id = cart[u][2].product_id
           /\ cart[u][1].product_id \in DOMAIN products
           /\ cart[u][1].qty <= products[cart[u][1].product_id].stock) =>
              LET p == cart[u][1].product_id
                  both == cart[u][1].qty + cart[u][2].qty
              IN IF both > products[p].stock
                 THEN /\ rs[u].at = "select" /\ rs[u].i = 2
                      /\ FetchOne(rs[u], p).stock = products[p].stock - cart[u][1].qty
                      /\ UNCHANGED <<products, sales>>
                 ELSE /\ p \in DOMAIN products'
                      /\ products'[p].stock = products[p].stock - both]_vars
\* the units of product p in the sale log, summed over the ids handed out
UnitsSold(p) ==
    LET sold[n \in 0..sale_seq] ==
            IF n = 0 THEN 0
            ELSE sold[n - 1] + (IF n \in DOMAIN sales /\ sales[n].product_id = p
                                THEN sales[n].quantity ELSE 0)
    IN sold[sale_seq]

\* C26: units are conserved by selling and returning. Every step of a
\* checkout or of a return (no stock adjustment, no product deletion) leaves,
\* for every product, stock plus the quantities of its stored Sale rows as
\* it was.
C26_UnitsConserved ==
    [][last'.op \in {"process_return", "finalize_sale", "record_sale"} =>
          \A p \in DOMAIN products :
              /\ p \in DOMAIN products'
              /\ products'[p].stock + UnitsSold(p)' = products[p].stock + UnitsSold(p)]_vars
\* C27: referential integrity of the sale log. In every reachable state the
\* product_id of each Sale row is the id of a stored product.
C27_SaleRowsReferToProducts ==
    \A i \in DOMAIN sales : sales[i].product_id \in DOMAIN products

\* a product that had Sale rows was deleted and rows of the other product
\* are still stored
C27_Witness ==
    /\ last.op = "remove_inventory_item" /\ last.msg = "Removed"
    /\ sale_seq > Cardinality(DOMAIN sales)
    /\ sales # EmptyTable
    /\ DOMAIN products # {}

\* C28: the stock effect of a Sale row is reversed at most once. A return
\* issued for a sale id that is no longer in the store (the row was returned
\* or removed with its product at another terminal) increases no product's
\* stock.
C28_ReturnOfMissingRowAddsNothing ==
    [][(/\ last'.op = "process_return"
        /\ last'.msg = "Return processed."
        /\ last'.arg[1] \notin DOMAIN sales) =>
          \A p \in DOMAIN products :
              p \in DOMAIN products' /\ products'[p].stock <= products[p].stock]_vars
\* C29: no sale is recorded before a successful login. A terminal's
\* current_staff is unset exactly while it shows the login screen, it is set
\* only by a verify_login whose pin matched a stored staff row, cart and
\* checkout exist only behind the login, and record_sale is handed, and would
\* write into every Sale row, the id of the staff member who authenticated.
C29_NoSaleBeforeLogin ==
    /\ [](\A t \in Terminals :
            /\ (current_staff[t] = NoId) <=> (screen[t] = "login")
            /\ current_staff[t] # NoId => current_staff[t] \in DOMAIN staff
            /\ current_staff[t] = NoId => (cart[t] = <<>> /\ pc[t] = "idle")
            /\ pc[t] = "record_sale" =>
                  /\ rs[t].staff_id = current_staff[t]
                  /\ \A k \in 1..Len(rs[t].rows) : rs[t].rows[k].staff_id = current_staff[t])
    /\ [][\A t \in Terminals :
            current_staff'[t] # current_staff[t] =>
                /\ current_staff[t] = NoId
                /\ last'.t = t /\ last'.op = "verify_login" /\ last'.msg = "Login Success"
                /\ \E pin \in PinInputs : staff[current_staff'[t]].pin = pin]_vars

\* a checkout runs under the administrator's id at one terminal while the
\* other terminal, where nobody has logged in, still shows the login screen
C29_Witness ==
    \E t \in Terminals, u \in Terminals :
        /\ pc[t] = "record_sale" /\ rs[t].staff_id = 1 /\ current_staff[t] = 1
        /\ screen[u] = "login" /\ current_staff[u] = NoId
        /\ last.t = u /\ last.op = "verify_login" /\ last.msg = "Login Failed"
====
